---- MODULE Spec2Model ----
(***************************************************************************)
(* Model of the youtube-rss feed cycle (src/youtube/youtube.py,            *)
(* src/youtube/db.py, src/youtube/rss.py, src/youtube/youtube_api.py).     *)
(*                                                                         *)
(* One feed cycle is generate_rss_feed: sync the subscriptions, fan out    *)
(* one diff task per channel, gather, resolve the new ids through the API, *)
(* insert the resolved items, then load / extend / save the rolling window *)
(* and render.  The store is three collections: subscriptions, videos and  *)
(* rss (the window document).                                              *)
(***************************************************************************)
EXTENDS Integers, Sequences, FiniteSets, TLC

(***************************************************************************)
(* Bounds.  limit and rss_len are the default arguments of the source      *)
(* (limit = 20 in read_last_video_ids_for_channel_from_db, rss_len = 40 in *)
(* load_rss_deque_from_db), scaled down so that a channel can hold more    *)
(* than limit videos and the window can overflow within the id universe.   *)
(***************************************************************************)
limit == 1
rss_len == 2
\* the longest feed a channel delivers
MaxFeedLen == 2
\* the longest stored sequence and the longest appended sequence of SpecWindow
MaxP == 3
MaxA == 2
\* the ids of one videos.list request (50 in the program), the pages the API
\* cuts one answer into, and the longest list of ids handed to the resolver
batch_size == 3
MaxPages == 2
MaxIds == 4
\* the longest list of ids of SpecBatches: two full batches and one id more
MaxBatchedIds == 7

Procs == {1, 2}
Channels == {"A", "B"}
VideoIds == {"v1", "v2", "v3"}
WindowIds == {"a", "b", "c", "d"}
Titles == {"t1", "t2"}
Etags == {"e1", "e2"}

VARIABLES
    subscriptions,  \* db.subscriptions: set of subscription documents
    videos,         \* db.videos: set of video documents
    rss,            \* db.rss: set of window documents
    pc,             \* per cycle: position in generate_rss_feed
    error,          \* per cycle: the exception that aborted it, or "none"
    tasks,          \* per cycle: the per-channel tasks of the diff fan-out
    video_ids,      \* per cycle: the list of new video ids
    resolved,       \* per cycle: the set returned by get_videos_info_from_api
    rss_deque,      \* per cycle: the in-memory deque(maxlen = rss_len)
    outage,         \* per cycle: the total-outage error was logged
    walk,           \* per cycle: the paginated walk of get_videos_info_from_api
    poll,           \* one call of the channel feed poller
    api_subscriptions, \* per cycle: the set returned by get_subscriptions_from_api
    source          \* the channel feeds at YouTube and the record of the cycles over them

vars == <<subscriptions, videos, rss, pc, error, tasks, video_ids, resolved,
          rss_deque, outage, walk, poll, api_subscriptions, source>>

----------------------------------------------------------------------------
(* Generic helpers for Python tuples, sets and lists.                      *)

ToSet(s) == {s[i] : i \in DOMAIN s}

SeqsUpTo(S, n) == UNION {[1..k -> S] : k \in 0..n}

\* tuple(a_set): every iteration order of the set is a possible outcome
TuplesOf(S) ==
    {t \in [1..Cardinality(S) -> S] : \A i, j \in DOMAIN t : i # j => t[i] # t[j]}

NoDuplicates(s) == \A i, j \in DOMAIN s : i # j => s[i] # s[j]

RECURSIVE Flatten(_)
Flatten(ss) == IF ss = <<>> THEN <<>> ELSE Head(ss) \o Flatten(Tail(ss))

----------------------------------------------------------------------------
(* The remote API's view of a video: the metadata of a video id.           *)

ChannelIdOf(v) == IF v = "v3" THEN "B" ELSE "A"
PublishedAtOf(v) == IF v = "v2" THEN 2 ELSE 1

\* etag is the version of the resource at the time the API delivers it
VideoItem(v, e) ==
    [id |-> v, etag |-> e, channelId |-> ChannelIdOf(v), publishedAt |-> PublishedAtOf(v)]

Subscription(c, t) == [channelId |-> c, title |-> t]

----------------------------------------------------------------------------
(* src/youtube/db.py                                                       *)

\* The ids of the stored videos of channel_id ($match on snippet.channelId).
ChannelVideoIds(coll, channel_id) == {d.id : d \in {x \in coll : x.channelId = channel_id}}

PublishedAtIn(coll, id) == (CHOOSE d \in coll : d.id = id).publishedAt

\* $sort publishedAt descending, $limit, $group/$push: every tuple the
\* aggregation can deliver (documents of equal publish time come in any order).
read_last_video_ids_for_channel_from_db(coll, channel_id) ==
    LET ids == ChannelVideoIds(coll, channel_id)
        n   == IF Cardinality(ids) < limit THEN Cardinality(ids) ELSE limit
        Sorted(t) == \A i, j \in DOMAIN t :
                        i < j => PublishedAtIn(coll, t[i]) >= PublishedAtIn(coll, t[j])
        Top(S) == \A a \in S : \A b \in ids \ S :
                        PublishedAtIn(coll, a) >= PublishedAtIn(coll, b)
    IN  {t \in UNION {TuplesOf(S) : S \in {T \in SUBSET ids : Cardinality(T) = n /\ Top(T)}} :
            Sorted(t)}

\* insert_many on a collection without the unique index: every document is
\* stored
insert_many_without_unique_index(coll, docs) ==
    [coll |-> coll \cup ToSet(docs), raised |-> FALSE]

\* insert_many (ordered) under the unique index on "id": the documents are
\* inserted in the order given until one hits a stored id (BulkWriteError);
\* the documents inserted before it stay.
RECURSIVE insert_many(_, _)
insert_many(coll, docs) ==
    IF docs = <<>> THEN [coll |-> coll, raised |-> FALSE]
    ELSE IF \E d \in coll : d.id = Head(docs).id
         THEN [coll |-> coll, raised |-> TRUE]
         ELSE insert_many(coll \cup {Head(docs)}, Tail(docs))

\* the insert is skipped and nothing is reported
save_items_skipped(coll, items) == [coll |-> coll, raised |-> FALSE]

\* the insert without its guard: insert_many refuses an empty list
save_items_without_guard(coll, items) ==
    IF items = <<>> THEN [coll |-> coll, raised |-> TRUE]
    ELSE insert_many(coll, items)

\* save_items_to_db: nothing is sent for an empty set; items is the
\* iteration order of the set.
save_items_to_db(coll, items) ==
    IF items = <<>> THEN [coll |-> coll, raised |-> FALSE]
    ELSE insert_many(coll, items)

\* the bulk_write with $set for $setOnInsert: a stored document is replaced
RECURSIVE save_subscriptions_with_set(_, _)
save_subscriptions_with_set(coll, subs) ==
    IF subs = <<>> THEN coll
    ELSE save_subscriptions_with_set(
            {d \in coll : d.channelId # Head(subs).channelId} \cup {Head(subs)},
            Tail(subs))

\* bulk_write of UpdateOne(filter channelId, $setOnInsert, upsert = True):
\* a subscription is inserted only when no document has its channel id.
RECURSIVE save_subscriptions_to_db(_, _)
save_subscriptions_to_db(coll, subs) ==
    IF subs = <<>> THEN coll
    ELSE save_subscriptions_to_db(
            IF \E d \in coll : d.channelId = Head(subs).channelId
            THEN coll ELSE coll \cup {Head(subs)},
            Tail(subs))

RssField == "rss_field"

\* a deque without maxlen: nothing is ever dropped
deque_append_unbounded(d, x, maxlen) == Append(d, x)

\* a full buffer that refuses the new element instead of dropping its head
deque_append_drop_new(d, x, maxlen) ==
    IF Len(d) >= maxlen THEN d ELSE Append(d, x)

\* deque(maxlen).append: a full deque drops its head.
deque_append(d, x, maxlen) ==
    IF Len(d) >= maxlen THEN Tail(Append(d, x)) ELSE Append(d, x)

\* deque(maxlen).extend: append the elements one by one.
RECURSIVE deque_extend(_, _, _)
deque_extend(d, xs, maxlen) ==
    IF xs = <<>> THEN d
    ELSE deque_extend(deque_append(d, Head(xs), maxlen), Tail(xs), maxlen)

\* the stored window is not read: an empty deque every time
load_rss_deque_empty(coll) == <<>>

\* find_one({"_id": "rss_field"}), then extend an empty deque by its ids
\* (rss.py _load_rss_deque_from_db is the same code on the blocking client).
load_rss_deque_from_db(coll) ==
    LET found == {d \in coll : d._id = RssField}
    IN  IF found # {}
        THEN deque_extend(<<>>, (CHOOSE d \in found : TRUE).deque, rss_len)
        ELSE <<>>

\* update_one without upsert: nothing is written when no document matches
save_rss_deque_without_upsert(coll, d) ==
    {IF x._id = RssField THEN [x EXCEPT !.deque = d] ELSE x : x \in coll}

\* an atomic append at the store: the ids of d that the stored window lacks
\* are pushed onto the stored window
save_rss_deque_merged(coll, d) ==
    LET found == {x \in coll : x._id = RssField}
        stored == IF found # {} THEN (CHOOSE x \in found : TRUE).deque ELSE <<>>
        merged == deque_extend(stored, SelectSeq(d, LAMBDA v : v \notin ToSet(stored)), rss_len)
    IN  {x \in coll : x._id # RssField} \cup {[_id |-> RssField, deque |-> merged]}

\* update_one({"_id": "rss_field"}, {"$set": {"deque": ...}}, upsert = True)
\* (rss.py _save_rss_deque_to_db is the same code on the blocking client).
save_rss_deque_to_db(coll, d) ==
    IF \E x \in coll : x._id = RssField
    THEN {IF x._id = RssField THEN [x EXCEPT !.deque = d] ELSE x : x \in coll}
    ELSE coll \cup {[_id |-> RssField, deque |-> d]}

----------------------------------------------------------------------------
(* src/youtube/youtube.py: the diff engine                                 *)

Task(channel_id, state, rss_video_ids, ids_in_db, result) ==
    [channel_id |-> channel_id, state |-> state, rss_video_ids |-> rss_video_ids,
     ids_in_db |-> ids_in_db, result |-> result]

PendingTask(channel_id) == Task(channel_id, "pending", <<>>, <<>>, <<>>)

\* the ids of the feed, the stored ids not subtracted
new_video_ids_set_no_subtraction(rss_video_ids, ids_in_db) == ToSet(rss_video_ids)

\* set(rss_video_ids) - set(ids_in_db)
new_video_ids_set(rss_video_ids, ids_in_db) == ToSet(rss_video_ids) \ ToSet(ids_in_db)

\* gather without return_exceptions: the first exception of a task is raised
gather_raises_task_exception(results) ==
    \E i \in DOMAIN results : results[i].state \in {"RequestError", "OtherError"}

\* asyncio.gather(*tasks, return_exceptions=True) hands every exception of a
\* task back as that task's result: the await itself raises nothing.
gather_raises(results) == FALSE

\* a loop that gives up the whole result when one task did not succeed
collect_video_ids_all_or_nothing(results) ==
    IF \E i \in DOMAIN results : results[i].state # "tuple"
    THEN <<>>
    ELSE Flatten([i \in DOMAIN results |-> results[i].result])

\* the loop over results: a tuple extends video_ids, a RequestError is
\* appended to exeptions, a result of any other type matches no branch.
RECURSIVE collect_video_ids(_)
collect_video_ids(results) ==
    IF results = <<>> THEN <<>>
    ELSE (IF Head(results).state = "tuple" THEN Head(results).result ELSE <<>>)
            \o collect_video_ids(Tail(results))

RECURSIVE collect_exeptions(_)
collect_exeptions(results) ==
    IF results = <<>> THEN <<>>
    ELSE (IF Head(results).state = "RequestError" THEN <<Head(results).channel_id>> ELSE <<>>)
            \o collect_exeptions(Tail(results))

\* a wait that returns with the first task that ended in an exception
gather_done_on_first_exception(results) ==
    \/ \A i \in DOMAIN results : results[i].state # "pending"
    \/ \E i \in DOMAIN results : results[i].state \in {"RequestError", "OtherError"}

\* await asyncio.gather(*tasks, return_exceptions=True) returns when every
\* task has ended, in a result or in an exception; there is no timeout
gather_done(results) == \A i \in DOMAIN results : results[i].state # "pending"

\* the check with "any" for "all"
check_if_any_request_failed(results, exeptions) == Len(exeptions) > 0

\* _check_if_all_requests_failed: TRUE when the error is logged
check_if_all_requests_failed(results, exeptions) == Len(exeptions) = Len(results)

----------------------------------------------------------------------------
(* src/youtube/youtube_api.py: the video info resolver                     *)

\* the walk without its count check
get_videos_info_unchecked(ids, api_items) == [raised |-> FALSE, videos |-> api_items]

\* The count check after the walk: api_items is the set accumulated from
\* the pages of all batches.
get_videos_info_from_api(ids, api_items) ==
    [raised |-> Cardinality(api_items) # Len(ids), videos |-> api_items]

\* batches of exactly n ids: a remainder is left out
RECURSIVE batched_without_remainder(_, _)
batched_without_remainder(ids, n) ==
    IF Len(ids) < n THEN <<>>
    ELSE <<SubSeq(ids, 1, n)>> \o batched_without_remainder(SubSeq(ids, n + 1, Len(ids)), n)

\* itertools.batched(video_ids, 50), the batch size scaled down
RECURSIVE batched(_, _)
batched(ids, n) ==
    IF ids = <<>> THEN <<>>
    ELSE IF Len(ids) <= n THEN <<ids>>
    ELSE <<SubSeq(ids, 1, n)>> \o batched(SubSeq(ids, n + 1, Len(ids)), n)

\* The state of one call of get_videos_info_from_api: the batches of the for
\* loop, the current batch and page (page 0: request is None), the local set
\* videos; delivered and executed record what the API was asked and gave.
NoWalk ==
    [status |-> "idle", batches |-> <<>>, batch |-> 0, page |-> 0,
     videos |-> {}, delivered |-> {}, executed |-> <<>>]

Executed(w, outcome) ==
    Append(w.executed, [batch |-> w.batch, page |-> w.page, outcome |-> outcome])

\* a page that replaces what was accumulated
set_update_overwrite(s, items) == items

\* videos.update(videos_result.items) on a set of VideoItem: two items are
\* one element only when all their fields are equal (__hash__ takes the id,
\* __eq__ of the pydantic model compares the fields)
set_update(s, items) == s \cup items

\* resource().list_next(request, response): None without a nextPageToken
list_next(page, nextPageToken) == IF nextPageToken THEN page + 1 ELSE 0

\* a handler that runs the same request again
execute_failure_retried(w) == w

\* request.execute raises: there is no handler in the loop
execute_failure(w) == [w EXCEPT !.status = "raised"]

\* a handler that logs and goes on with the next batch
validation_failure_swallowed(w) == [w EXCEPT !.page = 0]

\* VideosResponse.model_validate raises: logged and raised again
validation_failure(w) == [w EXCEPT !.status = "raised"]

----------------------------------------------------------------------------
(* src/youtube/youtube.py: the channel feed poller                         *)

\* httpx.AsyncHTTPTransport(retries=3): a failed connect is tried again
retries == 3

\* the status codes a feed request is answered with
StatusCodes == {200, 204, 301, 404, 503}

\* A feed document is the sequence of its atom:entry elements, each given by
\* the text of its yt:videoId child or by NoVideoId when it has none; NotXml
\* is a body that is no XML document.
NoVideoId == "none"
NotXml == [xml |-> FALSE, entries |-> <<>>]
FeedDocuments ==
    {[xml |-> TRUE, entries |-> d] : d \in SeqsUpTo(VideoIds \cup {NoVideoId}, MaxFeedLen)}

\* The state of one call of the channel feed poller
NoPoll ==
    [status |-> "idle", channel_id |-> "", retries_left |-> 0, status_code |-> 0,
     content |-> NotXml, cause |-> "none", error |-> "none", video_ids |-> <<>>]

\* the exceptions of class httpx.RequestError that a GET can end with
TransportErrors == {"ConnectError", "ReadTimeout"}

\* response.raise_for_status(): HTTPStatusError unless the status is 2xx
raise_for_status(status_code) ==
    IF status_code \in 200..299 THEN "none" ELSE "HTTPStatusError"

\* a handler for HTTPStatusError alone
except_status_error_only(exc) ==
    IF exc = "HTTPStatusError" THEN "RequestError" ELSE exc

\* the two except clauses: httpx.HTTPStatusError and httpx.RequestError are
\* raised again as RequestError
except_httpx_errors(exc) ==
    IF exc = "HTTPStatusError" \/ exc \in TransportErrors THEN "RequestError" ELSE exc

\* the ids of the feed, every id once
RECURSIVE get_video_ids_deduplicated(_)
get_video_ids_deduplicated(rss_feed) ==
    IF rss_feed.entries = <<>> THEN <<>>
    ELSE LET n == Len(rss_feed.entries)
             front == get_video_ids_deduplicated(
                         [rss_feed EXCEPT !.entries = SubSeq(@, 1, n - 1)])
             last == rss_feed.entries[n]
         IN  IF last = NoVideoId \/ last \in ToSet(front) THEN front
             ELSE Append(front, last)

\* _get_video_ids_from_rss: tuple(str(i) for i in
\* rss.xpath("//atom:entry/yt:videoId/text()"))
RECURSIVE xpath_video_ids(_)
xpath_video_ids(entries) ==
    IF entries = <<>> THEN <<>>
    ELSE (IF Head(entries) = NoVideoId THEN <<>> ELSE <<Head(entries)>>)
            \o xpath_video_ids(Tail(entries))

get_video_ids_from_rss(rss_feed) == xpath_video_ids(rss_feed.entries)

----------------------------------------------------------------------------
(* The feed cycle: generate_rss_feed                                       *)

\* The record of the cycles: whether the cycle in progress got an API
\* resource, the channels whose tasks it gathered and those of them whose
\* feed it polled with success (now), and the same of the cycle that has
\* just completed (last).
NoCycle == [completed |-> FALSE, resource |-> TRUE, channels |-> {}, polled |-> {}]

NoSource == [feeds |-> [c \in Channels |-> <<>>], last |-> NoCycle, now |-> NoCycle]

Init ==
    /\ subscriptions = {}
    /\ videos = {}
    /\ rss = {}
    /\ pc = [p \in Procs |-> "idle"]
    /\ error = [p \in Procs |-> "none"]
    /\ tasks = [p \in Procs |-> <<>>]
    /\ video_ids = [p \in Procs |-> <<>>]
    /\ resolved = [p \in Procs |-> {}]
    /\ rss_deque = [p \in Procs |-> <<>>]
    /\ outage = [p \in Procs |-> FALSE]
    /\ walk = [p \in Procs |-> NoWalk]
    /\ poll = NoPoll
    /\ api_subscriptions = [p \in Procs |-> {}]
    /\ source = NoSource

\* The cycle of p ends with exception e: the locals of the call are gone.
Raise(p, e) ==
    /\ pc' = [pc EXCEPT ![p] = "failed"]
    /\ error' = [error EXCEPT ![p] = e]
    /\ tasks' = [tasks EXCEPT ![p] = <<>>]
    /\ video_ids' = [video_ids EXCEPT ![p] = <<>>]
    /\ resolved' = [resolved EXCEPT ![p] = {}]
    /\ rss_deque' = [rss_deque EXCEPT ![p] = <<>>]
    /\ outage' = [outage EXCEPT ![p] = FALSE]

\* create_youtube_resource returns None: new_video_ids = []
NoResourceOf(p, recording) ==
    /\ pc[p] = "idle"
    /\ pc' = [pc EXCEPT ![p] = "load"]
    /\ source' = IF recording
                 THEN [source EXCEPT !.now = [NoCycle EXCEPT !.resource = FALSE]]
                 ELSE source
    /\ UNCHANGED <<api_subscriptions, walk, poll, subscriptions, videos, rss, error, tasks, video_ids, resolved,
                   rss_deque, outage>>

NoResource(p) == NoResourceOf(p, FALSE)

\* get_subscriptions_from_api raises (a failed page request or a page that
\* fails validation)
SubscriptionsFail(p) ==
    /\ pc[p] = "idle"
    /\ \E e \in {"HttpError", "ValidationError"} : Raise(p, e)
    /\ UNCHANGED <<source, api_subscriptions, walk, poll, subscriptions, videos, rss>>

\* get_subscriptions_from_api, save_subscriptions_to_db,
\* extract_channel_ids_from_subscriptions and the create_task fan-out
\* (channels, titles: the channels the account can be subscribed to and the
\* versions of a subscription that the API can deliver)
SyncSubscriptionsOf(p, channels, titles) ==
    /\ pc[p] = "idle"
    /\ \E api \in SUBSET {Subscription(c, t) : c \in channels, t \in titles} :
         \E subs \in TuplesOf(api) :
            /\ api_subscriptions' = [api_subscriptions EXCEPT ![p] = api]
            /\ subscriptions' = save_subscriptions_to_db(subscriptions, subs)
            /\ tasks' = [tasks EXCEPT ![p] =
                            [i \in DOMAIN subs |-> PendingTask(subs[i].channelId)]]
    /\ pc' = [pc EXCEPT ![p] = "fan_out"]
    /\ UNCHANGED <<source, walk, poll, videos, rss, error, video_ids, resolved, rss_deque, outage>>

SyncSubscriptions(p) == SyncSubscriptionsOf(p, Channels, {"t1"})

\* _get_channel_new_video_ids for the i-th channel: the feed request fails
\* with RequestError
ChannelTaskRequestError(p, i) ==
    /\ pc[p] = "fan_out"
    /\ i \in DOMAIN tasks[p]
    /\ tasks[p][i].state = "pending"
    /\ tasks' = [tasks EXCEPT ![p][i].state = "RequestError"]
    /\ UNCHANGED <<source, api_subscriptions, walk, poll, subscriptions, videos, rss, pc, error, video_ids, resolved,
                   rss_deque, outage>>

\* ... or the task ends with an exception that is no RequestError (the body
\* is no XML: etree.fromstring raises XMLSyntaxError)
ChannelTaskOtherError(p, i) ==
    /\ pc[p] = "fan_out"
    /\ i \in DOMAIN tasks[p]
    /\ tasks[p][i].state = "pending"
    /\ tasks' = [tasks EXCEPT ![p][i].state = "OtherError"]
    /\ UNCHANGED <<source, api_subscriptions, walk, poll, subscriptions, videos, rss, pc, error, video_ids, resolved,
                   rss_deque, outage>>

\* ... or it returns the ids of the feed that are not among the last ids
\* stored for the channel (feeds: the id tuples a feed can deliver)
ChannelTaskOkOf(p, i, feeds) ==
    /\ pc[p] = "fan_out"
    /\ i \in DOMAIN tasks[p]
    /\ tasks[p][i].state = "pending"
    /\ \E rss_video_ids \in feeds :
         \E ids_in_db \in read_last_video_ids_for_channel_from_db(
                              videos, tasks[p][i].channel_id) :
            \E result \in TuplesOf(new_video_ids_set(rss_video_ids, ids_in_db)) :
               tasks' = [tasks EXCEPT ![p][i] =
                            Task(@.channel_id, "tuple", rss_video_ids, ids_in_db, result)]
    /\ UNCHANGED <<source, api_subscriptions, walk, poll, subscriptions, videos, rss, pc, error, video_ids, resolved,
                   rss_deque, outage>>

ChannelTaskOk(p, i) == ChannelTaskOkOf(p, i, SeqsUpTo(VideoIds, MaxFeedLen))

\* the positions of the tasks that ended in the given state
TasksDone(results, state) == {i \in DOMAIN results : results[i].state = state}

\* _get_new_video_ids_for_all_channels after the gather: every task has ended
\* (recording: the cycle is entered in the record of the cycles)
GatherOf(p, recording) ==
    /\ pc[p] = "fan_out"
    /\ gather_done(tasks[p])
    /\ IF gather_raises(tasks[p])
       THEN Raise(p, "TaskError")
       ELSE /\ video_ids' = [video_ids EXCEPT ![p] = collect_video_ids(tasks[p])]
            /\ outage' = [outage EXCEPT ![p] =
                  check_if_all_requests_failed(tasks[p], collect_exeptions(tasks[p]))]
            /\ pc' = [pc EXCEPT ![p] = "resolve"]
            /\ UNCHANGED <<error, tasks, resolved, rss_deque>>
    /\ api_subscriptions' = [api_subscriptions EXCEPT ![p] = {}]
    /\ UNCHANGED <<walk, poll, subscriptions, videos, rss>>
    /\ source' = IF recording
                 THEN [source EXCEPT !.now =
                         [completed |-> FALSE, resource |-> TRUE,
                          channels |-> {tasks[p][i].channel_id : i \in DOMAIN tasks[p]},
                          polled |-> {tasks[p][i].channel_id : i \in TasksDone(tasks[p], "tuple")}]]
                 ELSE source

Gather(p) == GatherOf(p, FALSE)

\* get_videos_info_from_api raises on a failed page request or an invalid page
ResolveFail(p) ==
    /\ pc[p] = "resolve"
    /\ video_ids[p] # <<>>
    /\ \E e \in {"HttpError", "ValidationError"} : Raise(p, e)
    /\ UNCHANGED <<source, api_subscriptions, walk, poll, subscriptions, videos, rss>>

\* get_videos_info_from_api: the API delivers items of the requested ids
\* (videos.list filters by id: no other id comes back, a deleted or private
\* video is left out, an id that two pages deliver may come in two versions);
\* the count check decides (etags: the versions the API can deliver)
ResolveOf(p, etags) ==
    /\ pc[p] = "resolve"
    /\ \E api_items \in SUBSET {VideoItem(v, e) : v \in ToSet(video_ids[p]), e \in etags} :
         LET r == get_videos_info_from_api(video_ids[p], api_items)
         IN  IF r.raised
             THEN Raise(p, "ResourceWarning")
             ELSE /\ resolved' = [resolved EXCEPT ![p] = r.videos]
                  /\ tasks' = [tasks EXCEPT ![p] = <<>>]
                  /\ outage' = [outage EXCEPT ![p] = FALSE]
                  /\ pc' = [pc EXCEPT ![p] = "save_items"]
                  /\ UNCHANGED <<error, video_ids, rss_deque>>
    /\ UNCHANGED <<source, api_subscriptions, walk, poll, subscriptions, videos, rss>>

Resolve(p) == ResolveOf(p, {"e1"})

\* save_items_to_db(db.videos, videos)
SaveItems(p) ==
    /\ pc[p] = "save_items"
    /\ \E items \in TuplesOf(resolved[p]) :
         LET r == save_items_to_db(videos, items)
         IN  /\ videos' = r.coll
             /\ IF r.raised
                THEN Raise(p, "BulkWriteError")
                ELSE /\ pc' = [pc EXCEPT ![p] = "load"]
                     /\ resolved' = [resolved EXCEPT ![p] = {}]
                     /\ UNCHANGED <<error, tasks, video_ids, rss_deque, outage>>
    /\ UNCHANGED <<source, api_subscriptions, walk, poll, subscriptions, rss>>

\* form_rss_20_feed_from_videos_list: rss_deque = _load_rss_deque_from_db(db)
LoadWindow(p) ==
    /\ pc[p] = "load"
    /\ rss_deque' = [rss_deque EXCEPT ![p] = load_rss_deque_from_db(rss)]
    /\ pc' = [pc EXCEPT ![p] = "extend"]
    /\ UNCHANGED <<source, api_subscriptions, walk, poll, subscriptions, videos, rss, error, tasks, video_ids, resolved, outage>>

\* rss_deque.extend(video_ids)
ExtendWindow(p) ==
    /\ pc[p] = "extend"
    /\ rss_deque' = [rss_deque EXCEPT ![p] = deque_extend(@, video_ids[p], rss_len)]
    /\ pc' = [pc EXCEPT ![p] = "save_deque"]
    /\ UNCHANGED <<source, api_subscriptions, walk, poll, subscriptions, videos, rss, error, tasks, video_ids, resolved, outage>>

\* _save_rss_deque_to_db(db, rss_deque)
SaveWindow(p) ==
    /\ pc[p] = "save_deque"
    /\ rss' = save_rss_deque_to_db(rss, rss_deque[p])
    /\ pc' = [pc EXCEPT ![p] = "render"]
    /\ UNCHANGED <<source, api_subscriptions, walk, poll, subscriptions, videos, error, tasks, video_ids, resolved,
                   rss_deque, outage>>

\* the feed is rendered from the window and returned
RenderOf(p, recording) ==
    /\ pc[p] = "render"
    /\ pc' = [pc EXCEPT ![p] = "idle"]
    /\ video_ids' = [video_ids EXCEPT ![p] = <<>>]
    /\ rss_deque' = [rss_deque EXCEPT ![p] = <<>>]
    /\ source' = IF recording
                 THEN [source EXCEPT !.last = [source.now EXCEPT !.completed = TRUE],
                                     !.now = NoCycle]
                 ELSE source
    /\ UNCHANGED <<api_subscriptions, walk, poll, subscriptions, videos, rss, error, tasks, resolved, outage>>

Render(p) == RenderOf(p, FALSE)

\* the caller of generate_rss_feed has seen the failure
AbortOf(p, recording) ==
    /\ pc[p] = "failed"
    /\ pc' = [pc EXCEPT ![p] = "idle"]
    /\ error' = [error EXCEPT ![p] = "none"]
    /\ source' = IF recording
                 THEN [source EXCEPT !.last = NoCycle, !.now = NoCycle]
                 ELSE source
    /\ UNCHANGED <<api_subscriptions, walk, poll, subscriptions, videos, rss, tasks, video_ids, resolved,
                   rss_deque, outage>>

Abort(p) == AbortOf(p, FALSE)

Cycle(p) ==
    \/ NoResource(p)
    \/ SubscriptionsFail(p)
    \/ SyncSubscriptions(p)
    \/ \E i \in DOMAIN tasks[p] : ChannelTaskRequestError(p, i)
    \/ \E i \in DOMAIN tasks[p] : ChannelTaskOtherError(p, i)
    \/ \E i \in DOMAIN tasks[p] : ChannelTaskOk(p, i)
    \/ Gather(p)
    \/ ResolveFail(p)
    \/ Resolve(p)
    \/ SaveItems(p)
    \/ LoadWindow(p)
    \/ ExtendWindow(p)
    \/ SaveWindow(p)
    \/ Render(p)
    \/ Abort(p)

\* feed cycles that do not overlap: one request at a time
Next == Cycle(1)

Spec == Init /\ [][Next]_vars

\* the cycle over chosen universes of channels, subscription versions, video
\* versions and feeds
CycleOf(p, channels, titles, etags, feeds) ==
    \/ NoResource(p)
    \/ SubscriptionsFail(p)
    \/ SyncSubscriptionsOf(p, channels, titles)
    \/ \E i \in DOMAIN tasks[p] : ChannelTaskRequestError(p, i)
    \/ \E i \in DOMAIN tasks[p] : ChannelTaskOtherError(p, i)
    \/ \E i \in DOMAIN tasks[p] : ChannelTaskOkOf(p, i, feeds)
    \/ Gather(p)
    \/ ResolveFail(p)
    \/ ResolveOf(p, etags)
    \/ SaveItems(p)
    \/ LoadWindow(p)
    \/ ExtendWindow(p)
    \/ SaveWindow(p)
    \/ Render(p)
    \/ Abort(p)

\* GET /rss served for several requests at once: the cycles interleave at
\* their awaits.  The account is subscribed to channel A at most, whose feed
\* lists at most one of v1, v2.
ConcurrentFeeds == SeqsUpTo({"v1", "v2"}, 1)

NextConcurrent == \E p \in Procs : CycleOf(p, {"A"}, {"t1"}, Etags, ConcurrentFeeds)

SpecConcurrent == Init /\ [][NextConcurrent]_vars

\* Cycles one after another in which the API delivers the subscriptions in
\* any of their versions; a feed lists v1 or nothing.
SubscriptionFeeds == SeqsUpTo({"v1"}, 1)

NextSubscriptions == CycleOf(1, Channels, Titles, {"e1"}, SubscriptionFeeds)

SpecSubscriptions == Init /\ [][NextSubscriptions]_vars

\* Cycles one after another over channel feeds that stay as they are from
\* one cycle to the next unless YouTube changes them in between: a task that
\* polls its channel with success reads the feed the channel has now.
IdempotentFeeds == {<<>>, <<"v1">>, <<"v3">>, <<"v1", "v2">>}

\* a channel's feed changes between two cycles
ChangeFeed(c, feed) ==
    /\ pc[1] = "idle"
    /\ source.feeds[c] # feed
    /\ source' = [source EXCEPT !.feeds[c] = feed, !.last = NoCycle]
    /\ UNCHANGED <<subscriptions, videos, rss, pc, error, tasks, video_ids, resolved,
                   rss_deque, outage, walk, poll, api_subscriptions>>

NextIdempotent ==
    \/ \E c \in Channels : \E feed \in IdempotentFeeds : ChangeFeed(c, feed)
    \/ NoResourceOf(1, TRUE)
    \/ SubscriptionsFail(1)
    \/ SyncSubscriptionsOf(1, Channels, {"t1"})
    \/ \E i \in DOMAIN tasks[1] : ChannelTaskRequestError(1, i)
    \/ \E i \in DOMAIN tasks[1] : ChannelTaskOtherError(1, i)
    \/ \E i \in DOMAIN tasks[1] :
          ChannelTaskOkOf(1, i, {source.feeds[tasks[1][i].channel_id]})
    \/ GatherOf(1, TRUE)
    \/ ResolveFail(1)
    \/ ResolveOf(1, {"e1"})
    \/ SaveItems(1)
    \/ LoadWindow(1)
    \/ ExtendWindow(1)
    \/ SaveWindow(1)
    \/ RenderOf(1, TRUE)
    \/ AbortOf(1, TRUE)

SpecIdempotent == Init /\ [][NextIdempotent]_vars

----------------------------------------------------------------------------
(* The rolling window on its own: load, extend and save from any stored    *)
(* sequence P (also one longer than rss_len) and any appended sequence A.  *)

InitWindow ==
    /\ subscriptions = {}
    /\ videos = {}
    /\ rss \in {{}} \cup {{[_id |-> RssField, deque |-> P]} : P \in SeqsUpTo(WindowIds, MaxP)}
    /\ pc = [p \in Procs |-> IF p = 1 THEN "load" ELSE "idle"]
    /\ error = [p \in Procs |-> "none"]
    /\ tasks = [p \in Procs |-> <<>>]
    /\ \E A \in SeqsUpTo(WindowIds, MaxA) :
          video_ids = [p \in Procs |-> IF p = 1 THEN A ELSE <<>>]
    /\ resolved = [p \in Procs |-> {}]
    /\ rss_deque = [p \in Procs |-> <<>>]
    /\ outage = [p \in Procs |-> FALSE]
    /\ walk = [p \in Procs |-> NoWalk]
    /\ poll = NoPoll
    /\ api_subscriptions = [p \in Procs |-> {}]
    /\ source = NoSource

NextWindow == LoadWindow(1) \/ ExtendWindow(1) \/ SaveWindow(1)

SpecWindow == InitWindow /\ [][NextWindow]_vars

----------------------------------------------------------------------------
(* The resolver on its own, page by page: get_videos_info_from_api for any *)
(* list of new ids, followed by save_items_to_db.                          *)

OtherThanWalk == <<subscriptions, videos, rss, pc, error, tasks, video_ids,
                   resolved, rss_deque, outage, poll, api_subscriptions, source>>

\* videos: set[VideoItem] = set(); the for loop over batched(video_ids, 50)
WalkStart(p) ==
    /\ pc[p] = "resolve"
    /\ walk[p].status = "idle"
    /\ walk' = [walk EXCEPT ![p] =
                   [NoWalk EXCEPT !.status = "walking",
                                  !.batches = batched(video_ids[p], batch_size)]]
    /\ UNCHANGED OtherThanWalk

\* the next batch: request = resource().list(part, id = ",".join(batch_ids))
WalkBatch(p) ==
    /\ pc[p] = "resolve"
    /\ walk[p].status = "walking"
    /\ walk[p].page = 0
    /\ walk[p].batch < Len(walk[p].batches)
    /\ walk' = [walk EXCEPT ![p].batch = @ + 1, ![p].page = 1]
    /\ UNCHANGED OtherThanWalk

\* the items a page of the current batch can hold: videos.list answers with
\* items of the requested ids only, each id in at most one version per page
PagesOf(w, etags) ==
    LET ids == ToSet(w.batches[w.batch])
    IN  {items \in SUBSET {VideoItem(v, e) : v \in ids, e \in etags} :
            \A a, b \in items : a.id = b.id => a = b}

\* one turn of the while loop: the page is executed, validated and added,
\* list_next gives the request of the next page or None
WalkPageOf(p, etags) ==
    /\ pc[p] = "resolve"
    /\ walk[p].status = "walking"
    /\ walk[p].page > 0
    /\ \E items \in PagesOf(walk[p], etags), nextPageToken \in BOOLEAN :
         /\ nextPageToken => walk[p].page < MaxPages
         /\ walk' = [walk EXCEPT
                ![p].executed = Executed(walk[p], IF nextPageToken THEN "next" ELSE "last"),
                ![p].videos = set_update(@, items),
                ![p].delivered = @ \cup items,
                ![p].page = list_next(@, nextPageToken)]
    /\ UNCHANGED OtherThanWalk

WalkPage(p) == WalkPageOf(p, Etags)

\* request.execute fails (network, quota)
WalkPageFails(p) ==
    /\ pc[p] = "resolve"
    /\ walk[p].status = "walking"
    /\ walk[p].page > 0
    /\ LET w == execute_failure([walk[p] EXCEPT !.executed = Executed(walk[p], "HttpError")])
       IN  /\ walk' = [walk EXCEPT ![p] = w]
           /\ IF w.status = "raised"
              THEN Raise(p, "HttpError")
              ELSE UNCHANGED <<pc, error, tasks, video_ids, resolved, rss_deque, outage>>
    /\ UNCHANGED <<source, api_subscriptions, subscriptions, videos, rss, poll>>

\* the page is executed and VideosResponse.model_validate rejects it
WalkPageInvalid(p) ==
    /\ pc[p] = "resolve"
    /\ walk[p].status = "walking"
    /\ walk[p].page > 0
    /\ LET w == validation_failure(
                   [walk[p] EXCEPT !.executed = Executed(walk[p], "ValidationError")])
       IN  /\ walk' = [walk EXCEPT ![p] = w]
           /\ IF w.status = "raised"
              THEN Raise(p, "ValidationError")
              ELSE UNCHANGED <<pc, error, tasks, video_ids, resolved, rss_deque, outage>>
    /\ UNCHANGED <<source, api_subscriptions, subscriptions, videos, rss, poll>>

\* after the last batch: the count check, then return set(videos)
WalkFinish(p) ==
    /\ pc[p] = "resolve"
    /\ walk[p].status = "walking"
    /\ walk[p].page = 0
    /\ walk[p].batch = Len(walk[p].batches)
    /\ LET r == get_videos_info_from_api(video_ids[p], walk[p].videos)
       IN  IF r.raised
           THEN /\ Raise(p, "ResourceWarning")
                /\ walk' = [walk EXCEPT ![p].status = "raised"]
           ELSE /\ resolved' = [resolved EXCEPT ![p] = r.videos]
                /\ tasks' = [tasks EXCEPT ![p] = <<>>]
                /\ outage' = [outage EXCEPT ![p] = FALSE]
                /\ pc' = [pc EXCEPT ![p] = "save_items"]
                /\ walk' = [walk EXCEPT ![p].status = "returned"]
                /\ UNCHANGED <<error, video_ids, rss_deque>>
    /\ UNCHANGED <<source, api_subscriptions, subscriptions, videos, rss, poll>>

InitWalk ==
    /\ subscriptions = {}
    /\ videos = {}
    /\ rss = {}
    /\ pc = [p \in Procs |-> IF p = 1 THEN "resolve" ELSE "idle"]
    /\ error = [p \in Procs |-> "none"]
    /\ tasks = [p \in Procs |-> <<>>]
    /\ \E ids \in SeqsUpTo(VideoIds, MaxIds) :
          video_ids = [p \in Procs |-> IF p = 1 THEN ids ELSE <<>>]
    /\ resolved = [p \in Procs |-> {}]
    /\ rss_deque = [p \in Procs |-> <<>>]
    /\ outage = [p \in Procs |-> FALSE]
    /\ walk = [p \in Procs |-> NoWalk]
    /\ poll = NoPoll
    /\ api_subscriptions = [p \in Procs |-> {}]
    /\ source = NoSource

NextWalk ==
    \/ WalkStart(1)
    \/ WalkBatch(1)
    \/ WalkPage(1)
    \/ WalkPageFails(1)
    \/ WalkPageInvalid(1)
    \/ WalkFinish(1)
    \/ SaveItems(1)

SpecWalk == InitWalk /\ [][NextWalk]_vars

\* The resolver for id lists of every length up to two full batches and a
\* remainder: the first n ids of a list of distinct ids.
NewIds == <<"v1", "v2", "v3", "v4", "v5", "v6", "v7", "v8", "v9">>

InitBatches ==
    /\ subscriptions = {}
    /\ videos = {}
    /\ rss = {}
    /\ pc = [p \in Procs |-> IF p = 1 THEN "resolve" ELSE "idle"]
    /\ error = [p \in Procs |-> "none"]
    /\ tasks = [p \in Procs |-> <<>>]
    /\ \E n \in 0..MaxBatchedIds :
          video_ids = [p \in Procs |-> IF p = 1 THEN SubSeq(NewIds, 1, n) ELSE <<>>]
    /\ resolved = [p \in Procs |-> {}]
    /\ rss_deque = [p \in Procs |-> <<>>]
    /\ outage = [p \in Procs |-> FALSE]
    /\ walk = [p \in Procs |-> NoWalk]
    /\ poll = NoPoll
    /\ api_subscriptions = [p \in Procs |-> {}]
    /\ source = NoSource

NextBatches ==
    \/ WalkStart(1)
    \/ WalkBatch(1)
    \/ WalkPageOf(1, {"e1"})
    \/ WalkFinish(1)

SpecBatches == InitBatches /\ [][NextBatches]_vars

----------------------------------------------------------------------------
(* The channel feed poller on its own: _request_channel_rss_feed for any   *)
(* channel, followed by _get_video_ids_from_rss.                           *)

OtherThanPoll == <<subscriptions, videos, rss, pc, error, tasks, video_ids,
                   resolved, rss_deque, outage, walk, api_subscriptions, source>>

\* the end of the call with an exception of httpx
PollRaise(exc) ==
    poll' = [poll EXCEPT !.status = "raised", !.cause = exc,
                         !.error = except_httpx_errors(exc)]

\* client.get(rss_url) is sent through the retrying transport
PollStart(channel_id) ==
    /\ poll.status = "idle"
    /\ poll' = [NoPoll EXCEPT !.status = "connecting", !.channel_id = channel_id,
                              !.retries_left = retries]
    /\ UNCHANGED OtherThanPoll

\* the connection cannot be made: the transport tries again while it has
\* retries left, then ConnectError leaves client.get
PollConnectFails ==
    /\ poll.status = "connecting"
    /\ IF poll.retries_left > 0
       THEN poll' = [poll EXCEPT !.retries_left = @ - 1]
       ELSE PollRaise("ConnectError")
    /\ UNCHANGED OtherThanPoll

\* the request is sent and no answer comes in time: nothing is tried again
PollReadTimeout ==
    /\ poll.status = "connecting"
    /\ PollRaise("ReadTimeout")
    /\ UNCHANGED OtherThanPoll

\* an answer comes: raise_for_status, then return response.content
PollResponse ==
    /\ poll.status = "connecting"
    /\ \E status_code \in StatusCodes, content \in FeedDocuments \cup {NotXml} :
         LET exc == raise_for_status(status_code)
             answered == [poll EXCEPT !.status_code = status_code]
         IN  IF exc # "none"
             THEN poll' = [answered EXCEPT !.status = "raised", !.cause = exc,
                                           !.error = except_httpx_errors(exc)]
             ELSE poll' = [answered EXCEPT !.status = "returned", !.content = content]
    /\ UNCHANGED OtherThanPoll

\* _get_video_ids_from_rss(rss_feed)
PollParse ==
    /\ poll.status = "returned"
    /\ poll.content # NotXml
    /\ poll' = [poll EXCEPT !.status = "parsed",
                            !.video_ids = get_video_ids_from_rss(poll.content)]
    /\ UNCHANGED OtherThanPoll

\* etree.fromstring raises on a body that is no XML
PollParseFails ==
    /\ poll.status = "returned"
    /\ poll.content = NotXml
    /\ poll' = [poll EXCEPT !.status = "raised", !.cause = "XMLSyntaxError",
                            !.error = "XMLSyntaxError"]
    /\ UNCHANGED OtherThanPoll

NextPoller ==
    \/ \E channel_id \in Channels : PollStart(channel_id)
    \/ PollConnectFails
    \/ PollReadTimeout
    \/ PollResponse
    \/ PollParse
    \/ PollParseFails

SpecPoller == Init /\ [][NextPoller]_vars

----------------------------------------------------------------------------
(* Properties of the diff engine                                           *)

Gathered(p) == pc[p] = "resolve"

TasksIn(p, state) == {i \in DOMAIN tasks[p] : tasks[p][i].state = state}

\* the gather step of cycle p: the fan-out is left
GatherStep(p) == pc[p] = "fan_out" /\ pc'[p] # "fan_out"

\* ids is a tuple that read_last_video_ids_for_channel_from_db can return for
\* channel c: at most limit stored ids of c, none older than a stored id of
\* c that is left out
IsLastIdsOf(ids, c) ==
    /\ Len(ids) <= limit
    /\ ToSet(ids) \subseteq ChannelVideoIds(videos, c)
    /\ Cardinality(ChannelVideoIds(videos, c)) >= limit => Len(ids) = limit
    /\ \A a \in ToSet(ids) : \A b \in ChannelVideoIds(videos, c) \ ToSet(ids) :
          PublishedAtIn(videos, a) >= PublishedAtIn(videos, b)

\* C1: every id the diff returns is in the feed of a channel of C and is not
\* among the last ids read from the store for that channel (at most limit
\* stored ids of the channel, those with the latest publish time); the
\* channels of the tasks are the only ones whose feed contributes.
C1_DiffReturnsOnlyUnknownIds ==
    \A p \in Procs : Gathered(p) =>
        \A k \in DOMAIN video_ids[p] :
            \E i \in TasksIn(p, "tuple") :
                /\ video_ids[p][k] \in ToSet(tasks[p][i].rss_video_ids)
                /\ video_ids[p][k] \notin ToSet(tasks[p][i].ids_in_db)
                /\ IsLastIdsOf(tasks[p][i].ids_in_db, tasks[p][i].channel_id)

\* a channel whose feed lists a known id next to a new one: the known id is
\* subtracted, the new one is returned
C1_Witness ==
    /\ Gathered(1)
    /\ video_ids[1] # <<>>
    /\ \E i \in TasksIn(1, "tuple") :
          /\ ToSet(tasks[1][i].rss_video_ids) \cap ToSet(tasks[1][i].ids_in_db) # {}
          /\ tasks[1][i].result # <<>>

\* C2: when the feed request of every channel fails with RequestError, the
\* gather hands back an empty list and raises nothing.
C2_AllFailedReturnsEmpty ==
    [][\A p \in Procs :
          (GatherStep(p) /\ TasksIn(p, "RequestError") = DOMAIN tasks[p]) =>
              /\ pc'[p] = "resolve"
              /\ error'[p] = "none"
              /\ video_ids'[p] = <<>>]_vars

C2_Witness ==
    /\ Gathered(1)
    /\ Len(tasks[1]) = 2
    /\ TasksIn(1, "RequestError") = DOMAIN tasks[1]
    /\ video_ids[1] = <<>>

\* C3: when some but not all channels fail with RequestError, the result
\* holds exactly the new ids of the channels whose task succeeded.
C3_PartialFailureKeepsSucceeded ==
    \A p \in Procs :
        (/\ Gathered(p)
         /\ TasksIn(p, "RequestError") # {}
         /\ TasksIn(p, "RequestError") # DOMAIN tasks[p]) =>
            ToSet(video_ids[p]) =
                UNION {ToSet(tasks[p][i].result) : i \in TasksIn(p, "tuple")}

\* A yields the new id v1, B raises a connection error: the result is <<v1>>
C3_Witness ==
    /\ Gathered(1)
    /\ Len(tasks[1]) = 2
    /\ \E i, j \in DOMAIN tasks[1] :
          /\ tasks[1][i].channel_id = "A" /\ tasks[1][i].state = "tuple"
          /\ tasks[1][i].result = <<"v1">>
          /\ tasks[1][j].channel_id = "B" /\ tasks[1][j].state = "RequestError"
    /\ video_ids[1] = <<"v1">>
    /\ ~outage[1]

\* C4: a task that ends with an exception that is no RequestError makes the
\* gather raise: the cycle fails instead of going on to the resolver.
C4_OtherErrorPropagates ==
    [][\A p \in Procs :
          (GatherStep(p) /\ TasksIn(p, "OtherError") # {}) => pc'[p] = "failed"]_vars

\* C5: the list the diff returns holds no id twice.
C5_DiffHasNoDuplicates ==
    \A p \in Procs : Gathered(p) => NoDuplicates(video_ids[p])

\* C6: the total-outage error is logged exactly when the number of tasks that
\* ended in RequestError equals the number of channels, never when a task
\* succeeded, and the cycle goes on after logging it.
C6_OutageIffAllFailed ==
    [][\A p \in Procs : GatherStep(p) =>
          /\ outage'[p] <=> (Cardinality(TasksIn(p, "RequestError")) = Len(tasks[p]))
          /\ TasksIn(p, "tuple") # {} => ~outage'[p]
          /\ outage'[p] => (pc'[p] = "resolve" /\ error'[p] = "none")]_vars

C6_Witness ==
    /\ Gathered(1)
    /\ Len(tasks[1]) = 2
    /\ outage[1]

----------------------------------------------------------------------------
(* Properties of the rolling window                                        *)

StoredDeques == {d.deque : d \in rss}

\* the last n elements of s
LastN(s, n) == SubSeq(s, Len(s) - n + 1, Len(s))

Min(a, b) == IF a < b THEN a ELSE b

\* C7: the in-memory window of every cycle and the stored window document
\* hold at most rss_len ids.
C7_WindowWithinCapacity ==
    /\ \A p \in Procs : Len(rss_deque[p]) <= rss_len
    /\ \A d \in StoredDeques : Len(d) <= rss_len

\* a full window was extended by new ids: its head was evicted
C7_Witness ==
    /\ pc[1] = "save_deque"
    /\ video_ids[1] # <<>>
    /\ \E d \in StoredDeques : Len(d) = rss_len
    /\ Len(rss_deque[1]) = rss_len

\* C8: after load and extend, the window is the last min(rss_len, |P| + |A|)
\* elements of P \o A, for the stored sequence P and the appended sequence A.
C8_WindowIsSuffixOfConcatenation ==
    pc[1] = "save_deque" =>
        LET P == IF rss = {} THEN <<>> ELSE (CHOOSE d \in rss : TRUE).deque
            A == video_ids[1]
        IN  rss_deque[1] = LastN(P \o A, Min(rss_len, Len(P) + Len(A)))

\* a stored sequence longer than the capacity, extended by one id
C8_Witness ==
    /\ pc[1] = "save_deque"
    /\ \E d \in StoredDeques : Len(d) > rss_len /\ d[Len(d)] = rss_deque[1][1]
    /\ Len(video_ids[1]) = 1
    /\ Len(rss_deque[1]) = rss_len

\* the save step of cycle p
SaveWindowStep(p) == pc[p] = "save_deque" /\ pc'[p] = "render"

\* C9 as stated: saving what a load returned leaves the stored documents as
\* they are.
C9_SaveOfLoadLeavesStoreUnchanged ==
    [][\A p \in Procs :
          (SaveWindowStep(p) /\ rss_deque[p] = load_rss_deque_from_db(rss)) =>
              rss' = rss]_vars

\* C9 (amended): loading after a save yields the saved sequence; saving what
\* a load returned leaves a stored window document as it is and, when none is
\* stored, creates the one document with the empty sequence; a second save
\* of the same window changes nothing; after a save there is one document.
C9_SaveLoadRoundTrip ==
    [][\A p \in Procs : SaveWindowStep(p) =>
          /\ load_rss_deque_from_db(rss') = rss_deque[p]
          /\ save_rss_deque_to_db(rss', load_rss_deque_from_db(rss')) = rss'
          /\ save_rss_deque_to_db(rss', rss_deque[p]) = rss'
          /\ Cardinality(rss') = 1
          /\ rss_deque[p] = load_rss_deque_from_db(rss) =>
                IF rss = {} THEN StoredDeques' = {<<>>} ELSE rss' = rss]_vars

\* a window of two ids was saved over a stored one
C9_Witness ==
    /\ pc[1] = "render"
    /\ Len(rss_deque[1]) = rss_len
    /\ StoredDeques = {rss_deque[1]}
    /\ video_ids[1] # <<>>

\* C10: every id in the stored window has its VideoItem in the videos
\* collection.
C10_WindowIdsAreStoredVideos ==
    \A d \in StoredDeques : \A id \in ToSet(d) : \E v \in videos : v.id = id

\* a cycle aborted in save_items_to_db while the stored window holds ids
C10_Witness ==
    /\ pc[1] = "failed"
    /\ error[1] = "BulkWriteError"
    /\ \E d \in StoredDeques : d # <<>>

----------------------------------------------------------------------------
(* Properties of the videos collection and of the resolver                 *)

StoredWithId(coll, id) == {d \in coll : d.id = id}

PastSaveItems(p) == pc[p] \in {"load", "extend", "save_deque", "render"}

\* C11: under any interleaving of concurrent feed cycles the videos
\* collection holds at most one document per video id.
C11_OneVideoPerId ==
    \A a, b \in videos : a.id = b.id => a = b

\* both cycles resolved v1, in different versions; one inserted it, the
\* insert of the other was refused
C11_Witness ==
    /\ PastSaveItems(1)
    /\ "v1" \in ToSet(video_ids[1])
    /\ pc[2] = "failed"
    /\ error[2] = "BulkWriteError"
    /\ StoredWithId(videos, "v1") # {}

\* the save_items_to_db step of cycle p
SaveItemsStep(p) == pc[p] = "save_items" /\ pc'[p] # "save_items"

\* C12: a persist of an id that is stored already leaves the stored item as
\* it is and does not fail: the cycle goes on to the window.
C12_SecondPersistDoesNotFail ==
    [][\A p \in Procs :
          (SaveItemsStep(p) /\ \E d \in resolved[p] : StoredWithId(videos, d.id) # {}) =>
              /\ pc'[p] = "load"
              /\ \A d \in resolved[p] :
                    StoredWithId(videos, d.id) # {} =>
                        StoredWithId(videos', d.id) = StoredWithId(videos, d.id)]_vars

\* the resolver step of cycle p
ResolveStep(p) == pc[p] = "resolve" /\ pc'[p] # "resolve"

\* C13: the resolver returns only a set with as many items as ids were
\* requested; a cycle that it ends with ResourceWarning inserts no video and
\* leaves the window as it is.
C13_CountMismatchAborts ==
    [][\A p \in Procs :
          /\ (ResolveStep(p) /\ pc'[p] = "save_items") =>
                Cardinality(resolved'[p]) = Len(video_ids[p])
          /\ (ResolveStep(p) /\ pc'[p] # "save_items") =>
                (pc'[p] = "failed" /\ resolved'[p] = {})
          /\ (error[p] = "ResourceWarning" \/ error'[p] = "ResourceWarning") =>
                (videos' = videos /\ rss' = rss)]_vars

\* the API has lost a requested video while videos and a window are stored
C13_Witness ==
    /\ pc[1] = "failed"
    /\ error[1] = "ResourceWarning"
    /\ videos # {}
    /\ \E d \in StoredDeques : d # <<>>


Returned(p) == walk[p].status = "returned"
Log(p) == walk[p].executed
OutcomeAt(p, outcome) == {i \in DOMAIN Log(p) : Log(p)[i].outcome = outcome}

\* C14: the set that get_videos_info_from_api returns never holds two items
\* with the same video id, also when two pages or batches deliver the id in
\* versions that differ in another field (etag).
C14_ReturnedSetOneItemPerId ==
    \A p \in Procs :
       (Returned(p) /\ pc[p] = "save_items") =>
          \A a, b \in resolved[p] : a.id = b.id => a = b

\* the requests of the log follow the cursor: the first is page 1 of batch 1,
\* after a page with a continuation comes the next page of the same batch,
\* after a page without one comes page 1 of the next batch
CursorOrder(log) ==
    \A i \in DOMAIN log :
       IF i = 1 THEN log[i].batch = 1 /\ log[i].page = 1
       ELSE IF log[i - 1].outcome = "next"
            THEN log[i].batch = log[i - 1].batch /\ log[i].page = log[i - 1].page + 1
            ELSE /\ log[i - 1].outcome = "last"
                 /\ log[i].batch = log[i - 1].batch + 1
                 /\ log[i].page = 1

\* C15: a paginated walk executes each page exactly once in cursor order,
\* stops exactly when the continuation is null, and returns the union of the
\* items of all its pages.
C15_WalkReturnsUnionOfPages ==
    \A p \in Procs :
       /\ CursorOrder(Log(p))
       /\ \A i, j \in DOMAIN Log(p) :
             (Log(p)[i].batch = Log(p)[j].batch /\ Log(p)[i].page = Log(p)[j].page) => i = j
       /\ Returned(p) =>
             /\ \A i \in DOMAIN Log(p) : Log(p)[i].outcome \in {"next", "last"}
             /\ \A b \in DOMAIN walk[p].batches :
                   Cardinality({i \in OutcomeAt(p, "last") : Log(p)[i].batch = b}) = 1
             /\ Log(p) # <<>> => Log(p)[Len(Log(p))].outcome = "last"
             /\ pc[p] = "save_items" => resolved[p] = walk[p].delivered

C15_Witness ==
    /\ Returned(1)
    /\ pc[1] = "save_items"
    /\ Len(walk[1].batches) = 1
    /\ Len(Log(1)) = 2
    /\ Log(1)[1].outcome = "next"
    /\ Cardinality(resolved[1]) = 3

\* C16: a page that fails schema validation ends the call with
\* ValidationError, also after valid pages; no request follows, no item is
\* returned and nothing of the call reaches the store.
C16_InvalidPageRaises ==
    \A p \in Procs : \A i \in OutcomeAt(p, "ValidationError") :
       /\ i = Len(Log(p))
       /\ pc[p] = "failed"
       /\ error[p] = "ValidationError"
       /\ resolved[p] = {}
       /\ videos = {}

C16_Witness ==
    /\ Len(Log(1)) = 2
    /\ Log(1)[1].outcome \in {"next", "last"}
    /\ walk[1].delivered # {}
    /\ Log(1)[2].outcome = "ValidationError"
    /\ pc[1] = "failed"

\* C17: a page request whose execution fails surfaces at once: the request
\* is not executed again, no later page or batch is requested and no partial
\* result is returned.
C17_FailedRequestSurfacesAtOnce ==
    \A p \in Procs : \A i \in OutcomeAt(p, "HttpError") :
       /\ i = Len(Log(p))
       /\ \A j \in DOMAIN Log(p) :
             (Log(p)[j].batch = Log(p)[i].batch /\ Log(p)[j].page = Log(p)[i].page) => j = i
       /\ pc[p] = "failed"
       /\ error[p] = "HttpError"
       /\ resolved[p] = {}
       /\ videos = {}

C17_Witness ==
    /\ Len(Log(1)) = 2
    /\ Log(1)[1].outcome = "last"
    /\ walk[1].delivered # {}
    /\ Len(walk[1].batches) = 2
    /\ Log(1)[2].outcome = "HttpError"
    /\ pc[1] = "failed"


WithChannelId(coll, c) == {d \in coll : d.channelId = c}

\* C18: save_subscriptions_to_db inserts a subscription only when no document
\* with its channel id is stored; a stored document is never changed by a
\* later cycle, also when the API delivers other data for its channel id;
\* the collection holds at most one document per channel id.
C18_SubscriptionsInsertIfAbsent ==
    [][/\ \A d \in subscriptions : d \in subscriptions'
       /\ \A d \in subscriptions' \ subscriptions :
             WithChannelId(subscriptions, d.channelId) = {}
       /\ \A a, b \in subscriptions' : a.channelId = b.channelId => a = b
       /\ \A p \in Procs :
             (pc[p] = "idle" /\ pc'[p] = "fan_out") =>
                \A s \in api_subscriptions'[p] :
                   /\ WithChannelId(subscriptions', s.channelId) # {}
                   /\ WithChannelId(subscriptions, s.channelId) = {} =>
                         WithChannelId(subscriptions', s.channelId) \subseteq
                            api_subscriptions'[p]]_vars

C18_Witness ==
    /\ pc[1] = "fan_out"
    /\ api_subscriptions[1] = {Subscription("A", "t2"), Subscription("B", "t2")}
    /\ subscriptions = {Subscription("A", "t1"), Subscription("B", "t2")}


\* the call of _request_channel_rss_feed has ended with an exception
PollerRaised == poll.status = "raised" /\ poll.cause # "XMLSyntaxError"

\* C19: every failure of the channel feed poller is a RequestError: a
\* non-2xx answer, and a connection or timeout failure left after the
\* retries of the transport; nothing but the feed body or a RequestError
\* leaves _request_channel_rss_feed.
C19_PollerFailsWithRequestError ==
    /\ PollerRaised => poll.error = "RequestError"
    /\ (poll.status_code # 0 /\ poll.status_code \notin 200..299) =>
          (PollerRaised /\ poll.cause = "HTTPStatusError")
    /\ (PollerRaised /\ poll.cause = "ConnectError") => poll.retries_left = 0
    /\ poll.status \in {"returned", "parsed"} => poll.status_code \in 200..299
    /\ poll.status \in {"idle", "connecting", "returned", "parsed", "raised"}

C19_Witness ==
    /\ PollerRaised
    /\ poll.cause = "ConnectError"
    /\ poll.retries_left = 0
    /\ poll.error = "RequestError"

\* the ids of the entries of a feed document that have one, in document order
ListedIds(doc) == SelectSeq(doc.entries, LAMBDA x : x # NoVideoId)

\* C20 as stated: on success the poller returns the ids of the feed as a
\* tuple without duplicates, in document order.
C20_TupleDeduplicatedInDocumentOrder ==
    poll.status = "parsed" =>
       /\ NoDuplicates(poll.video_ids)
       /\ ToSet(poll.video_ids) = ToSet(ListedIds(poll.content))

\* C20 amended: on success the poller returns the id of every entry of the
\* feed that has one, as a tuple in document order; an id that the feed
\* lists twice occurs twice.
C20_TupleInDocumentOrder ==
    poll.status = "parsed" => poll.video_ids = ListedIds(poll.content)

C20_Witness ==
    /\ poll.status = "parsed"
    /\ poll.content.entries = <<"v2", "v2">>
    /\ poll.video_ids = <<"v2", "v2">>


----------------------------------------------------------------------------
(* Properties of whole cycles                                              *)

\* the rolling window as a reader of the store sees it
WindowOf(coll) == load_rss_deque_from_db(coll)

\* the stages of a cycle after the diff
AfterDiff == {"resolve", "save_items", "load", "extend", "save_deque", "render"}

\* C21: a cycle whose diff yields zero new ids completes without error and
\* leaves the videos collection and the contents and order of the rolling
\* window unchanged: each of its steps after the diff leads on to the next
\* stage and changes neither.
C21_ZeroNewIdsChangesNothing ==
    [][\A p \in Procs :
          (pc[p] \in AfterDiff /\ video_ids[p] = <<>> /\ pc'[p] # pc[p]) =>
             /\ pc'[p] # "failed"
             /\ error'[p] = "none"
             /\ videos' = videos
             /\ WindowOf(rss') = WindowOf(rss)]_vars

C21_Witness ==
    /\ pc[1] = "render"
    /\ video_ids[1] = <<>>
    /\ subscriptions # {}
    /\ videos # {}
    /\ WindowOf(rss) # <<>>
    /\ rss_deque[1] = WindowOf(rss)


\* C22: the window update is a load, an append and a persist that other
\* cycles can interleave with: the persist writes the window that the cycle
\* loaded and extended, whatever was persisted since the load, so an id that
\* another cycle persisted in between is lost (last writer wins).
C22_LastWriterWins ==
    [][\A p \in Procs :
          SaveWindowStep(p) =>
             /\ WindowOf(rss') = rss_deque[p]
             /\ \A v \in ToSet(WindowOf(rss)) \ ToSet(rss_deque[p]) :
                   v \notin ToSet(WindowOf(rss'))]_vars

\* both cycles persisted a new video of their own and loaded the empty
\* window; cycle 1 persisted <<v1>> first, cycle 2 then persisted <<v2>>
C22_Witness ==
    /\ pc[1] = "render" /\ pc[2] = "render"
    /\ video_ids[1] = <<"v1">> /\ video_ids[2] = <<"v2">>
    /\ StoredWithId(videos, "v1") # {} /\ StoredWithId(videos, "v2") # {}
    /\ rss_deque[1] = <<"v1">>
    /\ rss_deque[2] = <<"v2">>
    /\ WindowOf(rss) = <<"v2">>


\* C23: the fan-out starts one task per channel and assembles its result
\* only after every task has ended; a task that fails leaves its siblings
\* as they are, and the gather can return exactly when no task is pending
\* (a task that never ends keeps the cycle in the fan-out).
C23_GatherWaitsForAllTasks ==
    [][\A p \in Procs :
          /\ (pc[p] = "idle" /\ pc'[p] = "fan_out") =>
                /\ Len(tasks'[p]) = Cardinality(api_subscriptions'[p])
                /\ \A s \in api_subscriptions'[p] :
                      \E i \in DOMAIN tasks'[p] : tasks'[p][i] = PendingTask(s.channelId)
          /\ GatherStep(p) => TasksIn(p, "pending") = {}
          /\ (pc[p] = "fan_out" /\ pc'[p] = "fan_out") =>
                \A i \in DOMAIN tasks[p] :
                   tasks'[p][i] # tasks[p][i] =>
                      /\ tasks[p][i].state = "pending"
                      /\ \A j \in DOMAIN tasks[p] \ {i} : tasks'[p][j] = tasks[p][j]
          /\ pc[p] = "fan_out" => (ENABLED Gather(p) <=> TasksIn(p, "pending") = {})]_vars

\* the task of B has failed, the task of A has gone on and delivered v2, v1
C23_Witness ==
    /\ Gathered(1)
    /\ Len(tasks[1]) = 2
    /\ \E i, j \in DOMAIN tasks[1] :
          /\ tasks[1][i].channel_id = "B" /\ tasks[1][i].state = "OtherError"
          /\ tasks[1][j].channel_id = "A" /\ tasks[1][j].state = "tuple"
          /\ tasks[1][j].rss_video_ids = <<"v2", "v1">>
    /\ ToSet(video_ids[1]) = {"v1", "v2"}


\* the batches that the requests of the log ask for
RequestedBatches(p) == {Log(p)[i].batch : i \in DOMAIN Log(p)}

\* C24: the n requested ids are split into ceil(n / batch_size) consecutive
\* batches in input order, every batch but the last of exactly batch_size
\* ids and the last of the remainder; each id is requested in exactly one
\* batch, and for n = 0 no request is issued.
C24_BatchesOfFiftyInInputOrder ==
    \A p \in Procs :
       walk[p].status \in {"walking", "returned"} =>
          LET b == walk[p].batches
              n == Len(video_ids[p])
          IN  /\ Len(b) = (n + batch_size - 1) \div batch_size
              /\ \A i \in DOMAIN b :
                    Len(b[i]) = IF i < Len(b) THEN batch_size
                                ELSE n - batch_size * (Len(b) - 1)
              /\ \A i \in DOMAIN b : b[i] # <<>>
              /\ Flatten(b) = video_ids[p]
              /\ RequestedBatches(p) =
                    IF walk[p].page = 1 THEN 1..(walk[p].batch - 1) ELSE 1..walk[p].batch
              /\ walk[p].batch <= Len(b)
              /\ Returned(p) => RequestedBatches(p) = DOMAIN b
              /\ n = 0 => Log(p) = <<>>

C24_Witness ==
    /\ Returned(1)
    /\ Len(video_ids[1]) = 2 * batch_size + 1
    /\ Len(walk[1].batches) = 3
    /\ Len(walk[1].batches[1]) = batch_size
    /\ Len(walk[1].batches[2]) = batch_size
    /\ Len(walk[1].batches[3]) = 1
    /\ RequestedBatches(1) = {1, 2, 3}


OneItemPerId(items, ids) ==
    /\ {d.id : d \in items} = ids
    /\ \A a, b \in items : a.id = b.id => a = b

\* C26: when the API has delivered exactly one item for each distinct
\* requested id, the count check of get_videos_info_from_api passes, for
\* every id list of the diff, also one that holds an id twice.
C26_CountCheckPassesOnCompleteAnswer ==
    \A p \in Procs :
       (walk[p].status = "raised" /\ error[p] = "ResourceWarning") =>
          ~OneItemPerId(walk[p].videos, ToSet(Flatten(walk[p].batches)))

\* C27: in cycles that do not overlap, no id that the diff reported as new
\* is stored at the time of the persist step, also for a channel with more
\* stored videos than the diff reads.
C27_NewIdsAreNotStored ==
    \A p \in Procs :
       pc[p] = "save_items" =>
          \A d \in resolved[p] : StoredWithId(videos, d.id) = {}


\* C28: in every reachable state of sequential or concurrent cycles the
\* persisted rolling window holds no video id more than once.
C28_WindowHasNoDuplicates ==
    \A d \in StoredDeques : NoDuplicates(d)

\* both cycles reported v1 as new; the insert of cycle 2 was refused, and
\* the window that cycle 1 persisted holds v1 once
C28_Witness ==
    /\ pc[1] = "render"
    /\ video_ids[1] = <<"v1">>
    /\ pc[2] = "failed"
    /\ error[2] = "BulkWriteError"
    /\ \E d \in StoredDeques : d = <<"v1">>


\* the channels of the tasks of a cycle
ChannelsOf(results) == {results[i].channel_id : i \in DOMAIN results}

\* the feed of channel c lists no more ids, and the store holds no more
\* videos of c, than the diff reads back
WithinLimit(c) ==
    /\ Len(source.feeds[c]) <= limit
    /\ Cardinality(ChannelVideoIds(videos, c)) <= limit

\* the feed of channel c lists videos of c only
OwnFeed(c) == \A v \in ToSet(source.feeds[c]) : ChannelIdOf(v) = c

\* a cycle has completed, no feed has changed since, and the cycle in
\* progress is over the same channels
SourceUnchanged(channels) ==
    /\ source.last.completed
    /\ channels = source.last.channels
    /\ \A c \in channels : WithinLimit(c)

\* ... and the completed cycle polled every one of its channels with
\* success, each feed listing videos of its own channel
SourceUnchangedAndPolled(channels) ==
    /\ SourceUnchanged(channels)
    /\ source.last.polled = source.last.channels
    /\ \A c \in channels : OwnFeed(c)

WithoutResource(p) ==
    /\ ~source.now.resource
    /\ pc[p] \in {"load", "extend", "save_deque", "render"}

\* C30: a cycle for which create_youtube_resource returns None goes from
\* the start to the window steps with no subscription delivered or saved,
\* no channel task created and no video inserted; its list of new ids is
\* empty; it ends by rendering and not by an exception; the stored window
\* keeps its ids in their order (a window document that is missing is
\* created empty) and the feed is rendered from exactly these ids.
C30_NoResourceCycleOnlyReadsTheWindow ==
    [][/\ (pc[1] = "idle" /\ pc'[1] = "load")
          => /\ ~source'.now.resource
             /\ UNCHANGED <<subscriptions, videos, rss, api_subscriptions, tasks,
                            video_ids, resolved, poll, walk>>
       /\ WithoutResource(1)
          => /\ video_ids[1] = <<>> /\ video_ids'[1] = <<>>
             /\ tasks[1] = <<>> /\ api_subscriptions[1] = {} /\ resolved[1] = {}
             /\ UNCHANGED <<subscriptions, videos, api_subscriptions, tasks,
                            resolved, poll, walk>>
             /\ pc'[1] \in {"load", "extend", "save_deque", "render", "idle"}
             /\ error'[1] = "none"
             /\ IF rss = {} THEN StoredDeques' \subseteq {<<>>} ELSE rss' = rss
             /\ pc[1] = "render" => StoredDeques = {rss_deque[1]}]_vars

C30_Witness ==
    /\ WithoutResource(1)
    /\ pc[1] = "render"
    /\ subscriptions # {}
    /\ \E d \in StoredDeques : Len(d) = rss_len /\ d = rss_deque[1]
    /\ video_ids[1] = <<>>

====
